---- MODULE Spec2Model ----
(***************************************************************************)
(* tuneGUI: the typed parameter tree (tune_gui/parameter_tree_widget.py)   *)
(* and the mission-command toggle (tune_gui/mission_command_publisher.py). *)
(*                                                                         *)
(* A Python object is a record [t, v]: t is type(x).__name__ and v is      *)
(* str(x), so 42 is [t |-> "int", v |-> "42"] and True is                   *)
(* [t |-> "bool", v |-> "True"].  A dict is [t |-> "dict", v |-> the       *)
(* sequence of its [k, val] entries in insertion order].                   *)
(***************************************************************************)
EXTENDS Integers, Sequences, FiniteSets, TLC

VARIABLES
    items,           \* the QTreeWidgetItems of the tree, in creation order
    param_to_item,   \* self.param_to_item: full path -> index into items
    parameters,      \* self.parameters: the mapping last handed to a build
    updating,        \* self.updating
    emitted,         \* parameter_changed events emitted by the last operation
    raised,          \* the exception that escaped the last operation ("" = none)
    op,              \* the last operation and what it was applied to
    subscriptions,   \* subscriptions created by toggle_mission_control
    inbox,           \* /mission_command messages waiting for sub_callback
    published,       \* what the last sub_callback received and published
    msg_default      \* the command field of a freshly constructed MissionCommand

treeVars == <<items, param_to_item, parameters, updating, emitted, raised, op>>
toggleVars == <<subscriptions, inbox, published, msg_default>>
vars == <<items, param_to_item, parameters, updating, emitted, raised, op,
          subscriptions, inbox, published, msg_default>>

----------------------------------------------------------------------------
(* Bounds *)

MaxParams == 2      \* entries in a mapping handed to a build or a refresh
MaxInflight == 3    \* messages waiting on /mission_command
MaxSubscriptions == 2

----------------------------------------------------------------------------
(* Python values *)

PyInt(s) == [t |-> "int", v |-> s]
PyFloat(s) == [t |-> "float", v |-> s]
PyBool(s) == [t |-> "bool", v |-> s]
PyStr(s) == [t |-> "str", v |-> s]
PyNone == [t |-> "NoneType", v |-> "None"]
PyDict(entries) == [t |-> "dict", v |-> entries]

\* str(x)
str(x) == x.v

\* type(x).__name__
type_name(x) == x.t

\* str.lower() on the texts of the model
lower(s) ==
    CASE s = "True" -> "true"
      [] s = "False" -> "false"
      [] s = "None" -> "none"
      [] s = "NoneType" -> "nonetype"
      [] s = "Int64" -> "int64"
      [] s = "INTEGER" -> "integer"
      [] s = "DOUBLE" -> "double"
      [] s = "Float" -> "float"
      [] s = "Boolean" -> "boolean"
      [] s = "BOOL" -> "bool"
      [] s = "Yes" -> "yes"
      [] OTHER -> s

\* The texts Python's int() accepts, among the texts of the model.
IntTexts == {"1", "42"}

\* float(s) as the str() of the result; "" when float() raises ValueError.
FloatOf(s) ==
    CASE s = "1" -> "1.0"
      [] s = "42" -> "42.0"
      [] s = "1.0" -> "1.0"
      [] s = "42.0" -> "42.0"
      [] s = "2.75" -> "2.75"
      [] OTHER -> ""

----------------------------------------------------------------------------
(* The toolkit's item storage.  A QTreeWidgetItem keeps ONE QVariant per   *)
(* column for Qt.DisplayRole and Qt.EditRole together: setText(c, s) is    *)
(* setData(c, DisplayRole, s), text(c) is data(c, DisplayRole).toString(), *)
(* and data(c, EditRole) returns the same stored variant.  setData stores  *)
(* and signals itemChanged only when the new variant differs from the      *)
(* stored one under QVariant's comparison, which converts between types.   *)

\* QVariant::toString()
qToString(x) ==
    CASE x.t = "str" -> x.v
      [] x.t = "int" -> x.v
      [] x.t = "float" -> (CASE x.v = "1.0" -> "1"
                             [] x.v = "42.0" -> "42"
                             [] OTHER -> x.v)
      [] x.t = "bool" -> (IF x.v = "True" THEN "true" ELSE "false")
      [] OTHER -> ""

qIsNumericType(x) == x.t \in {"int", "float", "bool"}

\* the number a numeric variant holds, written as a float
qNumber(x) ==
    CASE x.t = "int" -> FloatOf(x.v)
      [] x.t = "float" -> x.v
      [] x.t = "bool" -> (IF x.v = "True" THEN "1.0" ELSE "0.0")

\* QString -> bool: false for "", "0" and "false" in any case, true otherwise
qStringToBool(s) == lower(s) \notin {"", "0", "false"}

\* QVariant::operator==(stored, new): numerics compare as numbers; otherwise
\* the new variant is converted to the stored one's type and a failed
\* conversion compares unequal.
qEquals(stored, new) ==
    IF stored.t = "NoneType" \/ new.t = "NoneType" THEN stored.t = new.t
    ELSE IF qIsNumericType(stored) /\ qIsNumericType(new)
         THEN qNumber(stored) = qNumber(new)
    ELSE IF stored.t = new.t THEN stored.v = new.v
    ELSE IF stored.t = "str" THEN stored.v = qToString(new)
    ELSE CASE stored.t = "int" ->
                  new.v \in IntTexts /\ FloatOf(new.v) = qNumber(stored)
           [] stored.t = "float" ->
                  FloatOf(new.v) # "" /\ FloatOf(new.v) = stored.v
           [] stored.t = "bool" ->
                  qStringToBool(new.v) = (stored.v = "True")
           [] OTHER -> FALSE

\* item.text(Columns.VALUE)
text(item) == qToString(item.display)

\* item.data(Columns.VALUE, Qt.ItemDataRole.EditRole)
data(item) == item.display

----------------------------------------------------------------------------
(* Python dicts *)

RECURSIVE DictFind(_, _, _)
\* position of key among the entries from n on, 0 when absent
DictFind(entries, key, n) ==
    IF n > Len(entries) THEN 0
    ELSE IF entries[n].k = key THEN n
    ELSE DictFind(entries, key, n + 1)

\* key in d
DictHas(d, key) == DictFind(d.v, key, 1) # 0

\* d[key]
DictItem(d, key) == d.v[DictFind(d.v, key, 1)].val

\* d.get(key, default)
DictGet(d, key, default) == IF DictHas(d, key) THEN DictItem(d, key) ELSE default

\* d[key] = val that puts a new key first
DictSet_front(d, key, val) ==
    IF DictHas(d, key)
    THEN PyDict([d.v EXCEPT ![DictFind(d.v, key, 1)].val = val])
    ELSE PyDict(<<[k |-> key, val |-> val]>> \o d.v)

\* d[key] = val: an existing key keeps its position, a new key goes last
DictSet(d, key, val) ==
    IF DictHas(d, key)
    THEN PyDict([d.v EXCEPT ![DictFind(d.v, key, 1)].val = val])
    ELSE PyDict(Append(d.v, [k |-> key, val |-> val]))

DictKeys(d) == {d.v[n].k : n \in 1..Len(d.v)}

\* param_to_item[path] = index
IndexSet(index, path, i) ==
    [p \in (DOMAIN index) \cup {path} |-> IF p = path THEN i ELSE index[p]]

\* param_path.split('.')
split(param_path) ==
    CASE param_path = "a" -> <<"a">>
      [] param_path = "b" -> <<"b">>
      [] param_path = "a.b" -> <<"a", "b">>
      [] param_path = "a.c" -> <<"a", "c">>
      [] param_path = "a.b.x" -> <<"a", "b", "x">>
      [] param_path = "a.b.y" -> <<"a", "b", "y">>
      [] OTHER -> <<param_path>>

RECURSIVE join(_)
\* '.'.join(parts)
join(parts) ==
    IF Len(parts) = 1 THEN parts[1]
    ELSE parts[1] \o "." \o join(Tail(parts))

----------------------------------------------------------------------------
(* Type Categorizer *)

\* get_param_category that compares the label as it is written
get_param_category_cased(type_name_) ==
    IF type_name_ \in {"int", "integer", "int64"} THEN "int"
    ELSE IF type_name_ \in {"float", "double"} THEN "float"
    ELSE IF type_name_ \in {"bool", "boolean"} THEN "bool"
    ELSE "str"

get_param_category(type_name_) ==
    LET name == lower(type_name_) IN
    IF name \in {"int", "integer", "int64"} THEN "int"
    ELSE IF name \in {"float", "double"} THEN "float"
    ELSE IF name \in {"bool", "boolean"} THEN "bool"
    ELSE "str"

----------------------------------------------------------------------------
(* The widget.  The operations are functions of a widget record            *)
(*   [items, param_to_item, parameters, updating, emitted, raised, blocked]*)
(* where blocked is signalsBlocked() and raised names the exception that   *)
(* is propagating ("" when none).                                          *)

\* parse_value that hands the text on unparsed
parse_value_unparsed(category, new_value_str) ==
    [ok |-> TRUE, value |-> PyStr(new_value_str)]

\* on_item_changed, lines 266-281: [ok, value]; ok = FALSE is the ValueError
parse_value(category, new_value_str) ==
    CASE category = "int" ->
             IF new_value_str \in IntTexts
             THEN [ok |-> TRUE, value |-> PyInt(new_value_str)]
             ELSE [ok |-> FALSE, value |-> PyNone]
      [] category = "float" ->
             IF FloatOf(new_value_str) # ""
             THEN [ok |-> TRUE, value |-> PyFloat(FloatOf(new_value_str))]
             ELSE [ok |-> FALSE, value |-> PyNone]
      [] category = "bool" ->
             LET val_lower == lower(new_value_str) IN
             IF val_lower \in {"true", "1", "yes", "on"}
             THEN [ok |-> TRUE, value |-> PyBool("True")]
             ELSE IF val_lower \in {"false", "0", "no", "off"}
             THEN [ok |-> TRUE, value |-> PyBool("False")]
             ELSE [ok |-> FALSE, value |-> PyNone]
      [] OTHER -> [ok |-> TRUE, value |-> PyStr(new_value_str)]

RECURSIVE on_item_changed(_, _)

\* QTreeWidgetItem.setData(Columns.VALUE, DisplayRole or EditRole, value):
\* nothing happens when the stored variant compares equal; otherwise it is
\* replaced and, unless the widget's signals are blocked, itemChanged runs
\* on_item_changed before setData returns.
setData(W, i, value) ==
    IF qEquals(W.items[i].display, value) THEN W
    ELSE LET W1 == [W EXCEPT !.items[i].display = value]
         IN IF W.blocked THEN W1 ELSE on_item_changed(W1, i)

\* QTreeWidgetItem.setText(Columns.VALUE, s)
setText(W, i, s) == setData(W, i, PyStr(s))

\* the event handed to the listeners of parameter_changed
emit(W, param_path, new_value) ==
    [W EXCEPT !.emitted = Append(@, [path |-> param_path, value |-> new_value])]

on_item_changed(W, i) ==
    IF W.updating THEN W
    ELSE
    LET item == W.items[i]
        param_path == item.path
    IN
    IF param_path = "" THEN W
    ELSE
    LET parsed == parse_value(get_param_category(item.type), text(item)) IN
    IF parsed.ok THEN emit(W, param_path, parsed.value)
    ELSE
    LET cached == data(item)
        fallback == cached.t = "NoneType" /\ DictHas(W.parameters, param_path)
    IN
    IF fallback /\ DictItem(W.parameters, param_path).t # "dict"
    THEN [W EXCEPT !.raised = "AttributeError"]
    ELSE
    LET prev_value == IF fallback
                      THEN DictGet(DictItem(W.parameters, param_path), "value", PyNone)
                      ELSE cached
        W1 == setText([W EXCEPT !.updating = TRUE], i, str(prev_value))
    IN [W1 EXCEPT !.updating = FALSE]

----------------------------------------------------------------------------
(* Tree Builder *)

\* a group row: no UserRole path, nothing in the value and type columns
GroupItem(parent, key) ==
    [parent |-> parent, name |-> key, path |-> "", display |-> PyNone,
     type |-> "", leaf |-> FALSE]

_add_parameter_item(W, parent, param_name, param_info, full_path) ==
    \* lines 212-213 have added a row with its name when line 215 fails
    IF param_info.t # "dict"
    THEN [W EXCEPT !.items = Append(@, GroupItem(parent, param_name)),
                   !.raised = "AttributeError"]
    ELSE
    LET value == DictGet(param_info, "value", PyNone)
        param_type == DictGet(param_info, "type", PyStr(type_name(value)))
        path == IF full_path # "" THEN full_path ELSE param_name
        i == Len(W.items) + 1
        \* a new item's first setText stores the text unconditionally
        item == [parent |-> parent, name |-> param_name, path |-> path,
                 display |-> PyStr(str(value)), type |-> param_type.v,
                 leaf |-> TRUE]
        W1 == setData([W EXCEPT !.items = Append(@, item)], i, value)
    IN [W1 EXCEPT !.param_to_item = IndexSet(@, path, i)]

RECURSIVE _build_tree(_, _, _)
\* the loop of _build_tree from entry n on
_build_tree(W, params, n) ==
    IF n > Len(params.v) \/ W.raised # "" THEN W
    ELSE _build_tree(
             _add_parameter_item(W, 0, params.v[n].k, params.v[n].val, ""),
             params, n + 1)

\* set_parameters that keeps the entries of the old index
set_parameters_keep_index(W, params) ==
    LET W0 == [W EXCEPT !.blocked = TRUE, !.items = << >>,
                        !.parameters = params]
        W1 == _build_tree(W0, params, 1)
    IN [W1 EXCEPT !.blocked = FALSE]

set_parameters(W, params) ==
    LET W0 == [W EXCEPT !.blocked = TRUE, !.items = << >>,
                        !.parameters = params, !.param_to_item = << >>]
        W1 == _build_tree(W0, params, 1)
    IN [W1 EXCEPT !.blocked = FALSE]

RECURSIVE insert_path(_, _, _)
\* lines 186-193 for one entry, from the dict `current` on:
\* [ok, d]; ok = FALSE is the TypeError of indexing or assigning into a
\* value that is not a dict
insert_path(current, parts, value) ==
    IF current.t # "dict" THEN [ok |-> FALSE, d |-> current]
    ELSE IF Len(parts) = 1
    THEN [ok |-> TRUE, d |-> DictSet(current, parts[1], value)]
    ELSE
    LET part == parts[1]
        c1 == IF ~DictHas(current, part)
              THEN DictSet(current, part, PyDict(<< >>))
              ELSE current
        r == insert_path(DictItem(c1, part), Tail(parts), value)
    IN IF r.ok THEN [ok |-> TRUE, d |-> DictSet(c1, part, r.d)]
       ELSE [ok |-> FALSE, d |-> current]

RECURSIVE tree_structure_of(_, _, _)
\* the loop of _build_tree_from_paths from entry n on: [ok, d]
tree_structure_of(structure, params, n) ==
    IF n > Len(params.v) THEN [ok |-> TRUE, d |-> structure]
    ELSE
    LET r == insert_path(structure, split(params.v[n].k), params.v[n].val)
    IN IF r.ok THEN tree_structure_of(r.d, params, n + 1) ELSE r

RECURSIVE _add_tree_structure(_, _, _, _, _)
\* the loop of _add_tree_structure from entry n of structure on
_add_tree_structure(W, parent, structure, path, n) ==
    IF n > Len(structure.v) \/ W.raised # "" THEN W
    ELSE
    LET key == structure.v[n].k
        value == structure.v[n].val
        current_path == Append(path, key)
        W1 == IF value.t = "dict"
              THEN LET Wg == [W EXCEPT !.items = Append(@, GroupItem(parent, key))]
                   IN _add_tree_structure(Wg, Len(Wg.items), value, current_path, 1)
              ELSE _add_parameter_item(W, parent, key,
                       PyDict(<<[k |-> "value", val |-> value],
                                [k |-> "type", val |-> PyStr(type_name(value))]>>),
                       join(current_path))
    IN _add_tree_structure(W1, parent, structure, path, n + 1)

_build_tree_from_paths(W, params) ==
    LET r == tree_structure_of(PyDict(<< >>), params, 1)
    IN IF r.ok THEN _add_tree_structure(W, 0, r.d, << >>, 1)
       ELSE [W EXCEPT !.raised = "TypeError"]

set_yaml_parameters(W, params) ==
    LET W0 == [W EXCEPT !.blocked = TRUE, !.items = << >>,
                        !.parameters = params, !.param_to_item = << >>]
        W1 == _build_tree_from_paths(W0, params)
    IN [W1 EXCEPT !.blocked = FALSE]

----------------------------------------------------------------------------
(* Refresh Path *)

RECURSIVE update_loop(_, _, _)
\* the loop of update_parameter_values from entry n on
update_loop(W, params, n) ==
    IF n > Len(params.v) \/ W.raised # "" THEN W
    ELSE
    LET param_name == params.v[n].k
        param_info == params.v[n].val
    IN
    IF param_name \notin DOMAIN W.param_to_item
    THEN update_loop(W, params, n + 1)
    ELSE IF param_info.t # "dict"
    THEN [W EXCEPT !.raised = "AttributeError"]
    ELSE
    LET i == W.param_to_item[param_name]
        new_value == DictGet(param_info, "value", PyNone)
        current_value == text(W.items[i])
    IN
    IF str(new_value) # current_value
    THEN update_loop(setData(setText(W, i, str(new_value)), i, new_value),
                     params, n + 1)
    ELSE update_loop(W, params, n + 1)

\* update_parameter_values that never sets self.updating
update_parameter_values_unguarded(W, params) == update_loop(W, params, 1)

RECURSIVE update_loop_always(_, _, _)
update_loop_always(W, params, n) ==
    IF n > Len(params.v) \/ W.raised # "" THEN W
    ELSE
    LET param_name == params.v[n].k
        param_info == params.v[n].val
    IN
    IF param_name \notin DOMAIN W.param_to_item
    THEN update_loop_always(W, params, n + 1)
    ELSE IF param_info.t # "dict"
    THEN [W EXCEPT !.raised = "AttributeError"]
    ELSE
    LET i == W.param_to_item[param_name]
        new_value == DictGet(param_info, "value", PyNone)
    IN update_loop_always(setData(setText(W, i, str(new_value)), i, new_value),
                          params, n + 1)

\* update_parameter_values that writes without comparing with the shown text
update_parameter_values_always(W, params) ==
    LET W1 == update_loop_always([W EXCEPT !.updating = TRUE], params, 1)
    IN IF W1.raised # "" THEN W1 ELSE [W1 EXCEPT !.updating = FALSE]

RECURSIVE update_loop_upsert(_, _, _)
update_loop_upsert(W, params, n) ==
    IF n > Len(params.v) \/ W.raised # "" THEN W
    ELSE
    LET param_name == params.v[n].k
        param_info == params.v[n].val
    IN
    IF param_name \notin DOMAIN W.param_to_item
    THEN update_loop_upsert(_add_parameter_item(W, 0, param_name, param_info, ""),
                            params, n + 1)
    ELSE update_loop_upsert(update_loop(W, PyDict(<<params.v[n]>>), 1), params, n + 1)

\* update_parameter_values that adds a leaf for a path the index lacks
update_parameter_values_upsert(W, params) ==
    LET W1 == update_loop_upsert([W EXCEPT !.updating = TRUE], params, 1)
    IN IF W1.raised # "" THEN W1 ELSE [W1 EXCEPT !.updating = FALSE]

update_parameter_values(W, params) ==
    LET W1 == update_loop([W EXCEPT !.updating = TRUE], params, 1)
    IN IF W1.raised # "" THEN W1 ELSE [W1 EXCEPT !.updating = FALSE]

----------------------------------------------------------------------------
(* Edit Controller: the delegate *)

\* every editor class of createEditor derives from QWidget
isinstance(editor, cls) == editor.cls = cls \/ cls = "QWidget"

\* the editor class createEditor builds for a leaf; checkbox tells whether
\* the editor has a QCheckBox child
createEditor(item) ==
    LET category == get_param_category(item.type) IN
    CASE category = "int" -> [cls |-> "QSpinBox", checkbox |-> FALSE]
      [] category = "float" -> [cls |-> "QDoubleSpinBox", checkbox |-> FALSE]
      [] category = "bool" -> [cls |-> "QWidget", checkbox |-> TRUE]
      [] OTHER -> [cls |-> "QLineEdit", checkbox |-> FALSE]

\* editor: [cls, checkbox, value], value being what the editor holds
setModelData(W, editor, i) ==
    LET value == IF isinstance(editor, "QSpinBox") THEN editor.value
                 ELSE IF isinstance(editor, "QDoubleSpinBox") THEN editor.value
                 ELSE IF isinstance(editor, "QWidget")
                      THEN (IF editor.checkbox THEN editor.value ELSE PyNone)
                 ELSE IF isinstance(editor, "QLineEdit") THEN editor.value
                 ELSE PyNone
        str_value == str(value)
    IN IF value.t # "NoneType"
       THEN setData(setData(W, i, value), i, PyStr(str_value))
       ELSE W

----------------------------------------------------------------------------
(* Command Toggle *)

\* sub_callback: the command it publishes for a received message.  Line 21
\* rebinds msg to a freshly constructed MissionCommand before line 22 reads
\* msg.command, so the test reads the fresh message's field.
sub_callback(received, fresh) ==
    LET msg == fresh IN
    IF msg = 1 THEN 2 ELSE 1

----------------------------------------------------------------------------
(* Inputs *)

Info(value, type_label) ==
    PyDict(<<[k |-> "value", val |-> value], [k |-> "type", val |-> PyStr(type_label)]>>)

Entry(key, val) == [k |-> key, val |-> val]

\* name -> {value, type} entries a node hands to set_parameters
FlatEntries ==
    { Entry("a", Info(PyInt("1"), "int")),
      Entry("a", PyDict(<<[k |-> "value", val |-> PyBool("False")]>>)),
      Entry("b", Info(PyFloat("1.0"), "DOUBLE")),
      Entry("b", Info(PyStr("x"), "string")) }

\* dotted path -> raw value entries of a flat YAML mapping
YamlEntries ==
    { Entry("a", PyInt("1")),
      Entry("a.b", PyBool("True")),
      Entry("a.b", PyDict(<<[k |-> "x", val |-> PyFloat("2.75")]>>)),
      Entry("a.c", PyNone) }

\* what a refresh carries per path: {value: v}, {} and a bare value
UpdateEntries ==
    { Entry("a", PyDict(<<[k |-> "value", val |-> PyInt("42")]>>)),
      Entry("a", PyDict(<<[k |-> "value", val |-> PyStr("maybe")]>>)),
      Entry("a", PyInt("1")),
      Entry("b", PyDict(<< >>)),
      Entry("b", PyDict(<<[k |-> "value", val |-> PyStr("")]>>)),
      Entry("a.b", PyDict(<< >>)) }

\* type labels in several spellings, with labels that name no category
TypeLabels ==
    {"int", "INTEGER", "Int64", "Float", "DOUBLE", "BOOL", "Boolean",
     "string", "widget", "NoneType", ""}

\* texts written into a value cell with setText
EditTexts == {"42", "yes", "maybe"}

\* what the editor of each class can hold at commit
EditorValues(cls) ==
    CASE cls = "QSpinBox" -> {PyInt("1"), PyInt("42")}
      [] cls = "QDoubleSpinBox" -> {PyFloat("1.0"), PyFloat("2.75")}
      [] cls = "QWidget" -> {PyBool("True"), PyBool("False")}
      [] OTHER -> {PyStr("x"), PyStr("42")}

\* the dicts of at most MaxParams of the entries, with distinct keys
Mappings(entries) ==
    UNION { { PyDict(e) : e \in { f \in [1..n -> entries] :
                                   \A x, y \in 1..n : x # y => f[x].k # f[y].k } } :
            n \in 0..MaxParams }

----------------------------------------------------------------------------
(* The state machine *)

Widget ==
    [items |-> items, param_to_item |-> param_to_item, parameters |-> parameters,
     updating |-> updating, emitted |-> << >>, raised |-> "", blocked |-> FALSE]

Leaves == {i \in 1..Len(items) : items[i].leaf}

Install(W, o) ==
    /\ items' = W.items
    /\ param_to_item' = W.param_to_item
    /\ parameters' = W.parameters
    /\ updating' = W.updating
    /\ emitted' = W.emitted
    /\ raised' = W.raised
    /\ op' = o
    /\ UNCHANGED toggleVars

\* op: the operation's name, the item it was applied to (0: none), the value
\* it was given (the editor's value, the text) and what happened:
\*   "wrote" some item's stored value changed,
\*   "hit"   a refresh named a path of the index,
\*   "same"  every indexed path a refresh named already displayed str(value),
\*   "miss"  a refresh named a path absent from the index,
\*   "replaced" a build dropped a path the index held before it
Op(name, target, arg, flags) ==
    [name |-> name, target |-> target, arg |-> arg, flags |-> flags]

Wrote(W) == IF W.items # items THEN {"wrote"} ELSE {}

Replaced(W) ==
    IF (DOMAIN param_to_item) \ (DOMAIN W.param_to_item) # {}
    THEN {"replaced"} ELSE {}

RefreshFlags(params) ==
    LET named == {n \in 1..Len(params.v) : params.v[n].k \in DOMAIN param_to_item}
    IN (IF named # {} THEN {"hit"} ELSE {})
       \cup (IF \A n \in named :
                  /\ params.v[n].val.t = "dict"
                  /\ str(DictGet(params.v[n].val, "value", PyNone))
                         = text(items[param_to_item[params.v[n].k]])
            THEN {"same"} ELSE {})
       \cup (IF \E n \in 1..Len(params.v) : params.v[n].k \notin DOMAIN param_to_item
            THEN {"miss"} ELSE {})

InitTree ==
    /\ items = << >>
    /\ param_to_item = << >>
    /\ parameters = PyDict(<< >>)
    /\ updating = FALSE
    /\ emitted = << >>
    /\ raised = ""
    /\ op = Op("init", 0, PyNone, {})

InitToggle ==
    /\ subscriptions = 0
    /\ inbox = << >>
    /\ published = [received |-> 0, sent |-> 0]

Init == InitTree /\ InitToggle /\ msg_default = 0

SetParameters ==
    \E params \in Mappings(FlatEntries) :
        LET W == set_parameters(Widget, params) IN
        Install(W, Op("set_parameters", 0, PyNone, Replaced(W)))

SetYamlParameters ==
    \E params \in Mappings(YamlEntries) :
        LET W == set_yaml_parameters(Widget, params) IN
        Install(W, Op("set_yaml_parameters", 0, PyNone, Replaced(W)))

UpdateParameterValues ==
    \E params \in Mappings(UpdateEntries) :
        LET W == update_parameter_values(Widget, params) IN
        Install(W, Op("update_parameter_values", 0, PyNone,
                      Wrote(W) \cup RefreshFlags(params)))

\* the user commits the editor of a leaf's value cell
Commit ==
    \E i \in Leaves :
        LET e == createEditor(items[i]) IN
        \E value \in EditorValues(e.cls) :
            LET W == setModelData(Widget, [cls |-> e.cls, checkbox |-> e.checkbox,
                                           value |-> value], i)
            IN Install(W, Op("commit", i, value, Wrote(W)))

\* the text of a leaf's value cell is set directly
SetText ==
    \E i \in Leaves, s \in EditTexts :
        LET W == setText(Widget, i, s)
        IN Install(W, Op("setText", i, PyStr(s), Wrote(W)))

Next ==
    \/ SetParameters
    \/ SetYamlParameters
    \/ UpdateParameterValues
    \/ Commit
    \/ SetText

Spec == Init /\ [][Next]_vars

\* toggle_mission_control creates one more subscription on /mission_command
ToggleMissionControl ==
    /\ subscriptions < MaxSubscriptions
    /\ subscriptions' = subscriptions + 1
    /\ UNCHANGED <<inbox, published, msg_default>>
    /\ UNCHANGED treeVars

\* c repeated n times
Copies(c, n) == [j \in 1..n |-> c]

\* another node publishes command c on /mission_command
Send ==
    \E c \in {1, 2} :
        /\ subscriptions > 0
        /\ Len(inbox) + subscriptions <= MaxInflight
        /\ inbox' = inbox \o Copies(c, subscriptions)
        /\ UNCHANGED <<subscriptions, published, msg_default>>
        /\ UNCHANGED treeVars

\* the executor runs sub_callback on the oldest waiting message; what it
\* publishes on /mission_command is delivered to the node's own subscriptions
SubCallback ==
    /\ inbox # << >>
    /\ Len(inbox) - 1 + subscriptions <= MaxInflight
    /\ LET sent == sub_callback(Head(inbox), msg_default) IN
        /\ published' = [received |-> Head(inbox), sent |-> sent]
        /\ inbox' = Tail(inbox) \o Copies(sent, subscriptions)
    /\ UNCHANGED <<subscriptions, msg_default>>
    /\ UNCHANGED treeVars

NextToggle ==
    \/ ToggleMissionControl
    \/ Send
    \/ SubCallback

\* the MissionCommand message is defined outside this repository: the
\* command of a fresh message is its field default, whatever that is
InitToggleAny == InitTree /\ InitToggle /\ msg_default \in 0..2

SpecToggle == InitToggleAny /\ [][NextToggle]_vars

----------------------------------------------------------------------------
(* Properties *)

Category(item) == get_param_category(item.type)

\* the runtime type of a value is the one its leaf's category calls for
TypeMatches(value, category) == value.t = category

RECURSIVE ItemParts(_)
\* the names from the root down to item i
ItemParts(i) ==
    IF items[i].parent = 0 THEN <<items[i].name>>
    ELSE Append(ItemParts(items[i].parent), items[i].name)

GroupPaths == {join(ItemParts(i)) : i \in {j \in 1..Len(items) : ~items[j].leaf}}

ProperPrefixes(key) ==
    {join(SubSeq(split(key), 1, n)) : n \in 1..(Len(split(key)) - 1)}

\* C1: every commit of the delegate that hands the model a value other than
\* the stored one emits parameter_changed exactly once, with the leaf's path
\* and the editor's value.
C1_OneEventPerCommit ==
    [][(op'.name = "commit" /\ ~qEquals(items[op'.target].display, op'.arg))
          => emitted' = <<[path |-> items[op'.target].path, value |-> op'.arg]>>]_vars

\* C2: update_parameter_values emits no parameter_changed event, in any
\* reachable state and for any update mapping.
C2_RefreshEmitsNothing ==
    /\ op.name = "update_parameter_values" => emitted = << >>
    /\ \A params \in Mappings(UpdateEntries) :
           update_parameter_values(Widget, params).emitted = << >>

\* a refresh has just overwritten a leaf and left an int, float or bool leaf
\* showing text that does not parse in its category
C2_Witness ==
    /\ op.name = "update_parameter_values"
    /\ "wrote" \in op.flags
    /\ \E i \in Leaves : Category(items[i]) # "str"
                         /\ ~parse_value(Category(items[i]), text(items[i])).ok

\* C3: every emitted event carries a value of the type of its leaf's
\* category: int, float, bool, and str for every other label.
C3_EventsAreTyped ==
    \A n \in 1..Len(emitted) :
        /\ emitted[n].path \in DOMAIN param_to_item
        /\ TypeMatches(emitted[n].value,
                       Category(items[param_to_item[emitted[n].path]]))

\* a float leaf's text was set to "42" and the event carries the float 42.0
C3_Witness ==
    /\ op.name = "setText"
    /\ op.arg = PyStr("42")
    /\ emitted = <<[path |-> items[op.target].path, value |-> PyFloat("42.0")]>>

\* C4: setting an int, float or bool leaf's text to text that does not parse
\* leaves the shown text and the cached value as they were and emits nothing.
C4_RejectRestores ==
    [][(/\ op'.name = "setText"
        /\ Category(items[op'.target]) # "str"
        /\ ~parse_value(Category(items[op'.target]), op'.arg.v).ok)
          => /\ text(items'[op'.target]) = text(items[op'.target])
             /\ data(items'[op'.target]) = data(items[op'.target])
             /\ emitted' = << >>]_vars

\* C5 (for leaves of category int, the claim's example): after an edit that
\* emitted an event, the cached value is the emitted value and the shown
\* text is its string form.
C5_RoundTrip ==
    (/\ op.name \in {"commit", "setText"}
     /\ Len(emitted) = 1
     /\ Category(items[op.target]) = "int")
        => /\ data(items[op.target]) = emitted[1].value
           /\ text(items[op.target]) = str(emitted[1].value)

\* C6: sub_callback publishes 2 on receiving 1 and 1 on receiving 2.
C6_Toggles ==
    /\ published.received = 1 => published.sent = 2
    /\ published.received = 2 => published.sent = 1

\* C7: after set_yaml_parameters the tree has one leaf per entry, indexed
\* under its dotted path, and its groups are the proper prefixes of the keys.
C7_OneLeafPerEntry ==
    op.name = "set_yaml_parameters" =>
        /\ Cardinality(Leaves) = Len(parameters.v)
        /\ DOMAIN param_to_item = DictKeys(parameters)
        /\ \A key \in DOMAIN param_to_item :
               /\ items[param_to_item[key]].leaf
               /\ items[param_to_item[key]].path = key
        /\ GroupPaths = UNION {ProperPrefixes(key) : key \in DictKeys(parameters)}

\* C8: no build and no edit ends with an exception.
C8_NoFailureEscapes ==
    op.name \in {"set_parameters", "set_yaml_parameters", "commit", "setText"}
        => raised = ""

\* C9: a refresh whose values all have the string form already shown changes
\* no item and emits nothing, and applying it again changes nothing either.
C9_RefreshIdempotent ==
    \A params \in Mappings(UpdateEntries) :
        ("same" \in RefreshFlags(params)) =>
            LET once == update_parameter_values(Widget, params)
                twice == update_parameter_values(once, params)
            IN /\ once.items = items
               /\ once.emitted = << >>
               /\ twice = once

\* a refresh named an indexed path and every value it named was shown already
C9_Witness ==
    /\ op.name = "update_parameter_values"
    /\ {"hit", "same"} \subseteq op.flags

\* C10: a refresh leaves the index, the number of items and every item's
\* parent, name, path and type label as they were, and changes the stored
\* value of no leaf the mapping does not name.
C10_RefreshFrame ==
    \A params \in Mappings(UpdateEntries) :
        LET after == update_parameter_values(Widget, params) IN
        /\ after.param_to_item = param_to_item
        /\ Len(after.items) = Len(items)
        /\ \A i \in 1..Len(items) :
               /\ [after.items[i] EXCEPT !.display = items[i].display] = items[i]
               /\ items[i].path \notin DictKeys(params) => after.items[i] = items[i]

\* a refresh named a path the index lacks and overwrote one of two leaves
C10_Witness ==
    /\ op.name = "update_parameter_values"
    /\ {"miss", "wrote"} \subseteq op.flags
    /\ Cardinality(Leaves) >= 2

\* the widget as __init__ leaves it
NewWidget ==
    [items |-> << >>, param_to_item |-> << >>, parameters |-> PyDict(<< >>),
     updating |-> FALSE, emitted |-> << >>, raised |-> "", blocked |-> FALSE]

\* C11: in every reachable state the keys of param_to_item are exactly the
\* paths of the leaves of the tree, every entry refers to the leaf holding
\* that path, no two leaves share a path, and a build on any tree leaves the
\* items and the index that the same build leaves on a new widget.
C11_IndexMatchesTree ==
    /\ DOMAIN param_to_item = {items[i].path : i \in Leaves}
    /\ \A p \in DOMAIN param_to_item :
           /\ param_to_item[p] \in Leaves
           /\ items[param_to_item[p]].path = p
    /\ \A i, j \in Leaves : items[i].path = items[j].path => i = j
    /\ \A params \in Mappings(FlatEntries) :
           LET after == set_parameters(Widget, params)
               fresh == set_parameters(NewWidget, params)
           IN /\ after.items = fresh.items
              /\ after.param_to_item = fresh.param_to_item
    /\ \A params \in Mappings(YamlEntries) :
           LET after == set_yaml_parameters(Widget, params)
               fresh == set_yaml_parameters(NewWidget, params)
           IN /\ after.items = fresh.items
              /\ after.param_to_item = fresh.param_to_item

\* a build has replaced a tree and dropped a path of the old index, and the
\* new tree has a leaf
C11_Witness ==
    /\ op.name \in {"set_parameters", "set_yaml_parameters"}
    /\ "replaced" \in op.flags
    /\ Leaves # {}

\* C12: for every label, in any spelling of its letters' case,
\* get_param_category returns "int" exactly when the label lower-cases to
\* int, integer or int64, "float" exactly for float or double, "bool"
\* exactly for bool or boolean, and "str" for every other label.
C12_CategoryTotal ==
    \A l \in TypeLabels \cup {items[i].type : i \in Leaves} :
        LET c == get_param_category(l) IN
        /\ c \in {"int", "float", "bool", "str"}
        /\ c = "int" <=> lower(l) \in {"int", "integer", "int64"}
        /\ c = "float" <=> lower(l) \in {"float", "double"}
        /\ c = "bool" <=> lower(l) \in {"bool", "boolean"}
        /\ c = "str" <=> lower(l) \notin {"int", "integer", "int64", "float",
                                          "double", "bool", "boolean"}

\* the editor of a leaf labelled DOUBLE was committed and the event carries
\* a float
C12_Witness ==
    /\ op.name = "commit"
    /\ items[op.target].type = "DOUBLE"
    /\ Len(emitted) = 1
    /\ emitted[1].value.t = "float"

\* the position in self.parameters of the first key whose segments start
\* with parts, 0 when there is none
FirstOccurrence(parts) ==
    LET S == {n \in 1..Len(parameters.v) :
                 /\ Len(split(parameters.v[n].k)) >= Len(parts)
                 /\ SubSeq(split(parameters.v[n].k), 1, Len(parts)) = parts}
    IN IF S = {} THEN 0 ELSE CHOOSE n \in S : \A m \in S : n <= m

\* C13: rows are appended to their parent in creation order, so siblings
\* stand in the order of their index in items.  After set_parameters the
\* rows carry the mapping's keys in the mapping's order; in every tree, of
\* two siblings whose paths start keys of the mapping, the earlier one is
\* the one whose path occurs first in the mapping.
C13_SiblingOrder ==
    /\ (op.name = "set_parameters" /\ raised = "") =>
           [i \in 1..Len(items) |-> items[i].name]
               = [n \in 1..Len(parameters.v) |-> parameters.v[n].k]
    /\ \A i, j \in 1..Len(items) :
           (/\ i < j
            /\ items[i].parent = items[j].parent
            /\ FirstOccurrence(ItemParts(i)) # 0
            /\ FirstOccurrence(ItemParts(j)) # 0)
               => FirstOccurrence(ItemParts(i)) < FirstOccurrence(ItemParts(j))

\* set_yaml_parameters has built a group whose child c stands before its
\* child b
C13_Witness ==
    /\ op.name = "set_yaml_parameters"
    /\ \E i, j \in 1..Len(items) :
           /\ i < j
           /\ items[i].parent = items[j].parent
           /\ items[i].parent # 0
           /\ items[i].name = "c"
           /\ items[j].name = "b"

\* C14: update_parameter_values never takes a leaf whose cached value
\* belongs to the category of its type label to a cached value of another
\* category.
C14_TagStable ==
    [][op'.name = "update_parameter_values" =>
          \A i \in Leaves :
              TypeMatches(data(items[i]), Category(items[i]))
                  => TypeMatches(data(items'[i]), Category(items'[i]))]_vars

\* C15: after update_parameter_values returns, every leaf the mapping names
\* shows the string form of the supplied value and caches the supplied
\* value.
C15_RefreshApplies ==
    \A params \in Mappings(UpdateEntries) :
        LET after == update_parameter_values(Widget, params) IN
        after.raised = "" =>
            \A n \in 1..Len(params.v) :
                params.v[n].k \in DOMAIN param_to_item =>
                    LET item == after.items[param_to_item[params.v[n].k]]
                        value == DictGet(params.v[n].val, "value", PyNone)
                    IN /\ text(item) = str(value)
                       /\ data(item) = value

\* C16: self.updating is False whenever no operation is running.
C16_UpdatingCleared == updating = FALSE

\* C17: what sub_callback publishes is not delivered to the node's own
\* subscription: a run of the callback takes the message it handled out of
\* the waiting messages and adds none.
C17_NoSelfDelivery ==
    [][SubCallback => inbox' = Tail(inbox)]_vars

====
